---- MODULE Spec2Model ----
(***************************************************************************)
(* Model of impeller's AtlasContents (entity/contents/atlas_contents.cc):  *)
(* the setters, the bounding-box cache, the sub-atlas packer and the       *)
(* blend-mode dispatch of AtlasContents::Render with its child contents.   *)
(*                                                                         *)
(* Scalars are kept in half units: the integer v stands for the Scalar     *)
(* v/2, so 0.5 is 1 and std::ceil rounds up to the next even integer.      *)
(* An std::optional or a nullable shared_ptr is a sequence of length <= 1. *)
(***************************************************************************)
EXTENDS FiniteSets, Integers, Sequences, TLC

\* ------------------------------------------------------------------------
\* Bounds and input sets
\* ------------------------------------------------------------------------

\* Largest number of elements of a vector handed to a setter.
MaxInstances == 2

\* The most shared_ptr owners the Context has when a ComputePass is made.
MaxOwners == 2

\* The most commands a ComputePass is given.
MaxCommands == 2

\* BlendMode enumerators (impeller/geometry/color.h), in declaration order.
kClear == 0
kSource == 1
kDestination == 2
kSourceOver == 3
kDestinationOver == 4
kSourceIn == 5
kDestinationIn == 6
kSourceOut == 7
kDestinationOut == 8
kSourceATop == 9
kDestinationATop == 10
kXor == 11
kPlus == 12
kModulate == 13
kScreen == 14
kMultiply == 24

\* The blend modes the setter is driven with: the three degenerate modes,
\* simple modes up to the last one (kModulate), and advanced modes from the
\* first one after it (kScreen).
BlendModes ==
  {kClear, kSource, kDestination, kSourceOver, kModulate, kScreen, kMultiply}

\* Matrix restricted to 2D affine maps with integer coefficients:
\* (x, y) |-> (a*x + c*y + tx, b*x + d*y + ty); tx, ty in half units.
Identity == [a |-> 1, b |-> 0, c |-> 0, d |-> 1, tx |-> 0, ty |-> 0]

\* Quarter turn, scaled by two and moved by (30.5, 2).
Turned == [a |-> 0, b |-> 2, c |-> -2, d |-> 0, tx |-> 61, ty |-> 4]

Matrices == {Identity, Turned}

\* Rect as origin and size, in half units.
\* (0, 0, 4, 4)
SmallRect == [x |-> 0, y |-> 0, w |-> 8, h |-> 8]

\* (2, 1, 1200.5, 6.5): wider than the packer's row budget, fractional size.
WideRect == [x |-> 4, y |-> 2, w |-> 2401, h |-> 13]

Rects == {SmallRect, WideRect}

\* (1, 0, 998, 3): leaves the packer's cursor at 999, one short of the row
\* budget.
NearRect == [x |-> 2, y |-> 0, w |-> 1996, h |-> 6]

\* (0, 0, 998.5, 2): leaves the cursor at ceil(998.5) + 1 = 1000, on the
\* budget.
EdgeRect == [x |-> 0, y |-> 0, w |-> 1997, h |-> 4]

\* (30, 10, -10, -3): right of its left edge and below its top edge, as
\* Rect::MakeLTRB(30, 10, 20, 7) builds it.
FlippedRect == [x |-> 60, y |-> 20, w |-> -20, h |-> -6]

RowRects == {SmallRect, WideRect, NearRect, EdgeRect, FlippedRect}

\* (0, 0, 5, 5)
CullRects == {[x |-> 0, y |-> 0, w |-> 10, h |-> 10]}

\* Color components in units of 1/510, so that two different colors can
\* fall onto the same 8-bit value.
White == [r |-> 510, g |-> 510, b |-> 510, a |-> 510]

\* Differs from White by less than one 8-bit step in red.
OffWhite == [r |-> 509, g |-> 510, b |-> 510, a |-> 510]

HalfRed == [r |-> 510, g |-> 0, b |-> 0, a |-> 255]

Colors == {White, OffWhite, HalfRed}

\* Alpha values in half units: 0 and 0.5.
Alphas == {0, 1}

TexA == [id |-> "A", w |-> 2048, h |-> 1024]

TexB == [id |-> "B", w |-> 4096, h |-> 4096]

Textures == {TexA, TexB}

\* All sequences over S of length at most n.
SeqsUpTo(S, n) == UNION {[1..k -> S] : k \in 0..n}

\* All orders in which the elements of the finite set S can be iterated.
Orders(S) ==
  {f \in [1..Cardinality(S) -> S] :
     \A i, j \in 1..Cardinality(S) : i # j => f[i] # f[j]}

Max(p, q) == IF p >= q THEN p ELSE q

Min(p, q) == IF p <= q THEN p ELSE q

\* std::ceil on a half-unit scalar.
Ceil(v) == ((v + 1) \div 2) * 2

\* ------------------------------------------------------------------------
\* Geometry (impeller/geometry)
\* ------------------------------------------------------------------------

MakeXYWH(x, y, w, h) == [x |-> x, y |-> y, w |-> w, h |-> h]

\* Rect::MakeSize(rect.GetSize())
MakeSize(r) == MakeXYWH(0, 0, r.w, r.h)

MakeTranslation(x, y) ==
  [a |-> 1, b |-> 0, c |-> 0, d |-> 1, tx |-> x, ty |-> y]

\* Matrix * Point
TransformPoint(m, p) ==
  [x |-> m.a * p.x + m.c * p.y + m.tx, y |-> m.b * p.x + m.d * p.y + m.ty]

\* Rect::GetPoints: top-left, top-right, bottom-left, bottom-right.
GetPoints(r) ==
  << [x |-> r.x, y |-> r.y], [x |-> r.x + r.w, y |-> r.y],
     [x |-> r.x, y |-> r.y + r.h], [x |-> r.x + r.w, y |-> r.y + r.h] >>

GetTransformedPoints(r, m) ==
  [k \in 1..4 |-> TransformPoint(m, GetPoints(r)[k])]

\* Rect::TransformBounds: the bounds of the four transformed corners.
TransformBounds(r, m) ==
  LET pts == GetTransformedPoints(r, m)
      l == Min(Min(pts[1].x, pts[2].x), Min(pts[3].x, pts[4].x))
      t == Min(Min(pts[1].y, pts[2].y), Min(pts[3].y, pts[4].y))
      rr == Max(Max(pts[1].x, pts[2].x), Max(pts[3].x, pts[4].x))
      bb == Max(Max(pts[1].y, pts[2].y), Max(pts[3].y, pts[4].y))
  IN  MakeXYWH(l, t, rr - l, bb - t)

IsEmpty(r) == r.w <= 0 \/ r.h <= 0

\* Rect::Union: an empty operand yields the other one.
Union(r, o) ==
  IF IsEmpty(r) THEN o
  ELSE IF IsEmpty(o) THEN r
  ELSE LET l == Min(r.x, o.x)
           t == Min(r.y, o.y)
           rr == Max(r.x + r.w, o.x + o.w)
           bb == Max(r.y + r.h, o.y + o.h)
       IN  MakeXYWH(l, t, rr - l, bb - t)

\* std::lround(c * 255) for a component in units of 1/510.
Quantize(c) == (c + 1) \div 2

\* Color::ToIColor: the 32-bit ARGB value of the rounded components, kept as
\* its four bytes (alpha << 24 | red << 16 | green << 8 | blue).
ToIColor(c) ==
  << Quantize(c.a) % 256, Quantize(c.r) % 256, Quantize(c.g) % 256,
     Quantize(c.b) % 256 >>

\* Color::Premultiply (components scaled by alpha, kept unnormalised).
Premultiply(c) ==
  [r |-> c.r * c.a, g |-> c.g * c.a, b |-> c.b * c.a, a |-> c.a]

\* What reads past the end of the vector s can yield, for the indices up to n:
\* one arbitrary value of V per index.
Garbage(s, n, V) == [(Len(s) + 1)..n -> V]

\* The n values that reading s[0], ..., s[n-1] yields, g being what the reads
\* past the end yield.
Padded(s, n, g) == [i \in 1..n |-> IF i <= Len(s) THEN s[i] ELSE g[i]]

\* ------------------------------------------------------------------------
\* State
\* ------------------------------------------------------------------------

VARIABLES
  texture_,             \* AtlasContents::texture_ (<<>> is nullptr)
  transforms_,          \* AtlasContents::transforms_
  texture_coords_,      \* AtlasContents::texture_coords_
  colors_,              \* AtlasContents::colors_
  alpha_,               \* AtlasContents::alpha_
  blend_mode_,          \* AtlasContents::blend_mode_
  cull_rect_,           \* AtlasContents::cull_rect_ (optional)
  bounding_box_cache_,  \* AtlasContents::bounding_box_cache_ (optional)
  op,                   \* the member function called last
  ret,                  \* what that call returned (as a one-element sequence)
  pass,                 \* the draws that call recorded on the caller's pass
  locals,               \* the locals of that call that outlive no call
  context_,             \* ComputePass::context_, as the use_count() of the
                        \* Context it refers to (0 is expired)
  grid_size_,           \* ComputePass::grid_size_
  thread_group_size_,   \* ComputePass::thread_group_size_
  commands_,            \* ComputePass::commands_
  pc,                   \* where the pass's thread is in EncodeCommands
  context,              \* the local of EncodeCommands (<<>> is nullptr)
  compute_op,           \* the ComputePass member function called last
  compute_ret,          \* what that call returned (<<>> until it has)
  virtual_calls,        \* the virtual functions that call has invoked
  expired_at_call       \* whether the Context was gone when it was called

atlas_vars ==
  << texture_, transforms_, texture_coords_, colors_, alpha_, blend_mode_,
     cull_rect_, bounding_box_cache_, op, ret, pass, locals >>

compute_vars ==
  << context_, grid_size_, thread_group_size_, commands_, pc, context,
     compute_op, compute_ret, virtual_calls, expired_at_call >>

vars == << atlas_vars, compute_vars >>

fields ==
  << texture_, transforms_, texture_coords_, colors_, alpha_, blend_mode_,
     cull_rect_, bounding_box_cache_ >>

NoLocals ==
  [coverage |-> <<>>, sub_atlas |-> <<>>, snapshot |-> <<>>,
   child_coverage |-> <<>>]

\* A call that returns nothing and draws nothing.
Returned(name, value) ==
  /\ op' = name
  /\ ret' = value
  /\ pass' = <<>>
  /\ locals' = NoLocals
  /\ UNCHANGED compute_vars

\* ------------------------------------------------------------------------
\* Bounding box cache
\* ------------------------------------------------------------------------

RECURSIVE BoundingBoxLoop(_, _, _)
\* The loop of ComputeBoundingBox over the first i instances.
BoundingBoxLoop(tc, tr, i) ==
  IF i = 0 THEN MakeXYWH(0, 0, 0, 0)
  ELSE Union(TransformBounds(MakeSize(tc[i]), tr[i]),
             BoundingBoxLoop(tc, tr, i - 1))

\* The value ComputeBoundingBox leaves in the cache; g is what reads of
\* transforms_ past its end yield.
CacheAfterCompute(g) ==
  IF bounding_box_cache_ = <<>>
  THEN << BoundingBoxLoop(texture_coords_,
                          Padded(transforms_, Len(texture_coords_), g),
                          Len(texture_coords_)) >>
  ELSE bounding_box_cache_

ComputeBoundingBox ==
  \E g \in Garbage(transforms_, Len(texture_coords_), Matrices) :
    /\ bounding_box_cache_' = CacheAfterCompute(g)
    /\ Returned("ComputeBoundingBox", CacheAfterCompute(g))
    /\ UNCHANGED << texture_, transforms_, texture_coords_, colors_, alpha_,
                    blend_mode_, cull_rect_ >>

GetCoverage(entity) ==
  IF cull_rect_ # <<>>
  THEN /\ Returned("GetCoverage", << TransformBounds(cull_rect_[1], entity) >>)
       /\ UNCHANGED fields
  ELSE \E g \in Garbage(transforms_, Len(texture_coords_), Matrices) :
         /\ bounding_box_cache_' = CacheAfterCompute(g)
         /\ Returned("GetCoverage",
                     << TransformBounds(CacheAfterCompute(g)[1], entity) >>)
         /\ UNCHANGED << texture_, transforms_, texture_coords_, colors_,
                         alpha_, blend_mode_, cull_rect_ >>

\* ------------------------------------------------------------------------
\* Setters
\* ------------------------------------------------------------------------

\* SetTransforms leaving the bounding box cache as it is.
SetTransforms_KeepsCache(transforms) ==
  /\ transforms_' = transforms
  /\ Returned("set", <<>>)
  /\ UNCHANGED << texture_, texture_coords_, colors_, alpha_, blend_mode_,
                  cull_rect_, bounding_box_cache_ >>

SetTransforms(transforms) ==
  /\ transforms_' = transforms
  /\ bounding_box_cache_' = <<>>
  /\ Returned("set", <<>>)
  /\ UNCHANGED << texture_, texture_coords_, colors_, alpha_, blend_mode_,
                  cull_rect_ >>

SetTextureCoordinates(texture_coords) ==
  /\ texture_coords_' = texture_coords
  /\ bounding_box_cache_' = <<>>
  /\ Returned("set", <<>>)
  /\ UNCHANGED << texture_, transforms_, colors_, alpha_, blend_mode_,
                  cull_rect_ >>

SetColors(colors) ==
  /\ colors_' = colors
  /\ Returned("set", <<>>)
  /\ UNCHANGED << texture_, transforms_, texture_coords_, alpha_, blend_mode_,
                  cull_rect_, bounding_box_cache_ >>

SetAlpha(alpha) ==
  /\ alpha_' = alpha
  /\ Returned("set", <<>>)
  /\ UNCHANGED << texture_, transforms_, texture_coords_, colors_, blend_mode_,
                  cull_rect_, bounding_box_cache_ >>

SetBlendMode(blend_mode) ==
  /\ blend_mode_' = blend_mode
  /\ Returned("set", <<>>)
  /\ UNCHANGED << texture_, transforms_, texture_coords_, colors_, alpha_,
                  cull_rect_, bounding_box_cache_ >>

SetCullRect(cull_rect) ==
  /\ cull_rect_' = cull_rect
  /\ Returned("set", <<>>)
  /\ UNCHANGED << texture_, transforms_, texture_coords_, colors_, alpha_,
                  blend_mode_, bounding_box_cache_ >>

\* ------------------------------------------------------------------------
\* Sub-atlas packing
\* ------------------------------------------------------------------------

\* The row width after which GenerateSubAtlas starts a new row.
kRowWidth == 1000

\* KeyOf comparing the exact color instead of its 32-bit value.
KeyOf_ExactColor(tc, co, i) == [rect |-> tc[i], color_key |-> co[i]]

\* What AtlasBlenderKey::Hash and ::Equal tell apart of instance i: the rect
\* and the 32-bit color_key (the exact color takes no part).
KeyOf(tc, co, i) == [rect |-> tc[i], color_key |-> ToIColor(co[i])]

\* The keys of the unordered_map after the first loop.
SubAtlasKeys(tc, co) == {KeyOf(tc, co, i) : i \in 1..Len(tc)}

\* The color stored in the map's key: that of the instance that inserted it.
KeyColor(tc, co, key) ==
  co[CHOOSE i \in 1..Len(tc) :
       /\ KeyOf(tc, co, i) = key
       /\ \A j \in 1..(i - 1) : KeyOf(tc, co, j) # key]

RECURSIVE KeyTransforms(_, _, _, _, _)
\* The vector mapped to key after the first i instances were inserted.
KeyTransforms(tc, co, tr, key, i) ==
  IF i = 0 THEN <<>>
  ELSE IF KeyOf(tc, co, i) = key
       THEN Append(KeyTransforms(tc, co, tr, key, i - 1), tr[i])
       ELSE KeyTransforms(tc, co, tr, key, i - 1)

EmptyPacking ==
  [x_offset |-> 0, y_offset |-> 0, x_extent |-> 0, y_extent |-> 0,
   sub_texture_coords |-> <<>>, sub_colors |-> <<>>, sub_transforms |-> <<>>,
   result_texture_coords |-> <<>>, result_transforms |-> <<>>]

\* PackStep emitting one per-instance entry per map entry, whatever the
\* number of transforms mapped to it.
PackStep_OneMember(st, key, color, transforms) ==
  LET wrap == st.x_offset >= kRowWidth * 2
      y_offset == IF wrap THEN st.y_extent + 2 ELSE st.y_offset
      x_offset == IF wrap THEN 0 ELSE st.x_offset
      new_rect == MakeXYWH(x_offset, y_offset, key.rect.w, key.rect.h)
      next_x == x_offset + Ceil(key.rect.w) + 2
  IN  [x_offset |-> next_x,
       y_offset |-> y_offset,
       x_extent |-> Max(st.x_extent, next_x),
       y_extent |-> Max(st.y_extent, Ceil(y_offset + key.rect.h)),
       sub_texture_coords |-> Append(st.sub_texture_coords, key.rect),
       sub_colors |-> Append(st.sub_colors, color),
       sub_transforms |->
         Append(st.sub_transforms, MakeTranslation(x_offset, y_offset)),
       result_texture_coords |->
         st.result_texture_coords
           \o << new_rect >>,
       result_transforms |-> Append(st.result_transforms, transforms[1])]

\* PackStep starting a new row at the top of the previous one.
PackStep_SameRow(st, key, color, transforms) ==
  LET wrap == st.x_offset >= kRowWidth * 2
      y_offset == st.y_offset
      x_offset == IF wrap THEN 0 ELSE st.x_offset
      new_rect == MakeXYWH(x_offset, y_offset, key.rect.w, key.rect.h)
      next_x == x_offset + Ceil(key.rect.w) + 2
  IN  [x_offset |-> next_x,
       y_offset |-> y_offset,
       x_extent |-> Max(st.x_extent, next_x),
       y_extent |-> Max(st.y_extent, Ceil(y_offset + key.rect.h)),
       sub_texture_coords |-> Append(st.sub_texture_coords, key.rect),
       sub_colors |-> Append(st.sub_colors, color),
       sub_transforms |->
         Append(st.sub_transforms, MakeTranslation(x_offset, y_offset)),
       result_texture_coords |->
         st.result_texture_coords
           \o [j \in 1..Len(transforms) |-> new_rect],
       result_transforms |-> st.result_transforms \o transforms]

\* PackStep starting a new row only once the cursor is past the row width.
PackStep_LateWrap(st, key, color, transforms) ==
  LET wrap == st.x_offset > kRowWidth * 2
      y_offset == IF wrap THEN st.y_extent + 2 ELSE st.y_offset
      x_offset == IF wrap THEN 0 ELSE st.x_offset
      new_rect == MakeXYWH(x_offset, y_offset, key.rect.w, key.rect.h)
      next_x == x_offset + Ceil(key.rect.w) + 2
  IN  [x_offset |-> next_x,
       y_offset |-> y_offset,
       x_extent |-> Max(st.x_extent, next_x),
       y_extent |-> Max(st.y_extent, Ceil(y_offset + key.rect.h)),
       sub_texture_coords |-> Append(st.sub_texture_coords, key.rect),
       sub_colors |-> Append(st.sub_colors, color),
       sub_transforms |->
         Append(st.sub_transforms, MakeTranslation(x_offset, y_offset)),
       result_texture_coords |->
         st.result_texture_coords
           \o [j \in 1..Len(transforms) |-> new_rect],
       result_transforms |-> st.result_transforms \o transforms]

\* One iteration of the second loop, for the map entry (key, transforms).
PackStep(st, key, color, transforms) ==
  LET wrap == st.x_offset >= kRowWidth * 2
      y_offset == IF wrap THEN st.y_extent + 2 ELSE st.y_offset
      x_offset == IF wrap THEN 0 ELSE st.x_offset
      new_rect == MakeXYWH(x_offset, y_offset, key.rect.w, key.rect.h)
      next_x == x_offset + Ceil(key.rect.w) + 2
  IN  [x_offset |-> next_x,
       y_offset |-> y_offset,
       x_extent |-> Max(st.x_extent, next_x),
       y_extent |-> Max(st.y_extent, Ceil(y_offset + key.rect.h)),
       sub_texture_coords |-> Append(st.sub_texture_coords, key.rect),
       sub_colors |-> Append(st.sub_colors, color),
       sub_transforms |->
         Append(st.sub_transforms, MakeTranslation(x_offset, y_offset)),
       result_texture_coords |->
         st.result_texture_coords
           \o [j \in 1..Len(transforms) |-> new_rect],
       result_transforms |-> st.result_transforms \o transforms]

RECURSIVE PackLoop(_, _, _, _, _)
\* The second loop over the first k map entries, iterated in the given order.
PackLoop(tc, co, tr, order, k) ==
  IF k = 0 THEN EmptyPacking
  ELSE PackStep(PackLoop(tc, co, tr, order, k - 1), order[k],
                KeyColor(tc, co, order[k]),
                KeyTransforms(tc, co, tr, order[k], Len(tc)))

\* The SubAtlasResult returned once the second loop has ended in state st.
SubAtlasResult(st) ==
  [sub_texture_coords |-> st.sub_texture_coords,
   sub_colors |-> st.sub_colors,
   sub_transforms |-> st.sub_transforms,
   result_texture_coords |-> st.result_texture_coords,
   result_transforms |-> st.result_transforms,
   size |-> [width |-> Ceil(st.x_extent), height |-> Ceil(st.y_extent)]]

\* AtlasContents::GenerateSubAtlas on the instances (tc, co, tr), the
\* unordered_map being iterated in the given order.
GenerateSubAtlas(tc, co, tr, order) ==
  SubAtlasResult(PackLoop(tc, co, tr, order, Len(order)))

\* ------------------------------------------------------------------------
\* Child contents
\* ------------------------------------------------------------------------

\* constexpr size_t indices[6] = {0, 1, 2, 1, 2, 3}, one-based.
indices == << 1, 2, 3, 2, 3, 4 >>

\* The vertex loop of AtlasTextureContents::Render. A texture coordinate
\* point / texture_size is kept as the pair of the point and the size.
TextureVertices(texture_coords, transforms, texture) ==
  [v \in 1..(6 * Len(texture_coords)) |->
     LET i == ((v - 1) \div 6) + 1
         j == ((v - 1) % 6) + 1
     IN  [position |->
            GetTransformedPoints(MakeSize(texture_coords[i]),
                                 transforms[i])[indices[j]],
          texture_coords |->
            [point |-> GetPoints(texture_coords[i])[indices[j]],
             size |-> [w |-> texture.w, h |-> texture.h]]]]

\* AtlasTextureContents::Render without the HasVertices check: it draws an
\* empty vertex buffer.
AtlasTextureContentsRender_DrawsEmpty(child, parent_texture, tc, tr, entity, draw_ok) ==
  LET texture == IF child.texture_ # <<>> THEN child.texture_
                 ELSE parent_texture
      texture_coords ==
        IF child.subatlas_ # <<>>
        THEN IF child.use_destination_
             THEN child.subatlas_[1].result_texture_coords
             ELSE child.subatlas_[1].sub_texture_coords
        ELSE tc
      transforms ==
        IF child.subatlas_ # <<>>
        THEN IF child.use_destination_
             THEN child.subatlas_[1].result_transforms
             ELSE child.subatlas_[1].sub_transforms
        ELSE tr
  IN  IF texture = <<>> THEN [ret |-> TRUE, draws |-> <<>>]
      ELSE [ret |-> draw_ok,
            draws |->
              << [label |-> "AtlasTexture",
                  pipeline |-> "TexturePipeline",
                  vertices |->
                    TextureVertices(texture_coords, transforms, texture[1]),
                  texture |-> texture,
                  uniforms |-> [mvp |-> entity, alpha |-> child.alpha_],
                  ok |-> draw_ok] >>]

\* AtlasTextureContents::Render of a child with the given members; tc and tr
\* are what the parent's getters yield. The result is the returned value and
\* the draws recorded on the pass, each with what pass.Draw() returned.
AtlasTextureContentsRender(child, parent_texture, tc, tr, entity, draw_ok) ==
  LET texture == IF child.texture_ # <<>> THEN child.texture_
                 ELSE parent_texture
      texture_coords ==
        IF child.subatlas_ # <<>>
        THEN IF child.use_destination_
             THEN child.subatlas_[1].result_texture_coords
             ELSE child.subatlas_[1].sub_texture_coords
        ELSE tc
      transforms ==
        IF child.subatlas_ # <<>>
        THEN IF child.use_destination_
             THEN child.subatlas_[1].result_transforms
             ELSE child.subatlas_[1].sub_transforms
        ELSE tr
  IN  IF texture = <<>> THEN [ret |-> TRUE, draws |-> <<>>]
      ELSE IF Len(texture_coords) = 0 THEN [ret |-> TRUE, draws |-> <<>>]
      ELSE [ret |-> draw_ok,
            draws |->
              << [label |-> "AtlasTexture",
                  pipeline |-> "TexturePipeline",
                  vertices |->
                    TextureVertices(texture_coords, transforms, texture[1]),
                  texture |-> texture,
                  uniforms |-> [mvp |-> entity, alpha |-> child.alpha_],
                  ok |-> draw_ok] >>]

\* ColorVertices handing on the colors as they are, not premultiplied.
ColorVertices_Unpremultiplied(texture_coords, transforms, colors) ==
  [v \in 1..(6 * Len(texture_coords)) |->
     LET i == ((v - 1) \div 6) + 1
         j == ((v - 1) % 6) + 1
     IN  [position |->
            GetTransformedPoints(MakeSize(texture_coords[i]),
                                 transforms[i])[indices[j]],
          color |-> colors[i]]]

\* The vertex loop of AtlasColorContents::Render.
ColorVertices(texture_coords, transforms, colors) ==
  [v \in 1..(6 * Len(texture_coords)) |->
     LET i == ((v - 1) \div 6) + 1
         j == ((v - 1) % 6) + 1
     IN  [position |->
            GetTransformedPoints(MakeSize(texture_coords[i]),
                                 transforms[i])[indices[j]],
          color |-> Premultiply(colors[i])]]

\* AtlasColorContents::Render; tc, tr and co are what the parent's getters
\* yield.
AtlasColorContentsRender(child, tc, tr, co, entity, draw_ok) ==
  LET texture_coords ==
        IF child.subatlas_ # <<>> THEN child.subatlas_[1].sub_texture_coords
        ELSE tc
      colors ==
        IF child.subatlas_ # <<>> THEN child.subatlas_[1].sub_colors ELSE co
      transforms ==
        IF child.subatlas_ # <<>> THEN child.subatlas_[1].sub_transforms
        ELSE tr
  IN  IF Len(texture_coords) = 0 THEN [ret |-> TRUE, draws |-> <<>>]
      ELSE [ret |-> draw_ok,
            draws |->
              << [label |-> "AtlasColors",
                  pipeline |-> "GeometryColorPipeline",
                  blend_mode |-> kSourceOver,
                  vertices |->
                    ColorVertices(texture_coords, transforms, colors),
                  texture |-> <<>>,
                  uniforms |-> [mvp |-> entity, alpha |-> child.alpha_],
                  ok |-> draw_ok] >>]

\* ------------------------------------------------------------------------
\* AtlasContents::Render
\* ------------------------------------------------------------------------

\* InvertPorterDuffBlend: the mode with source and destination exchanged,
\* nullopt for the modes past kModulate.
InvertPorterDuffBlend(blend_mode) ==
  IF blend_mode = kClear THEN << kClear >>
  ELSE IF blend_mode = kSource THEN << kDestination >>
  ELSE IF blend_mode = kDestination THEN << kSource >>
  ELSE IF blend_mode = kSourceOver THEN << kDestinationOver >>
  ELSE IF blend_mode = kDestinationOver THEN << kSourceOver >>
  ELSE IF blend_mode = kSourceIn THEN << kDestinationIn >>
  ELSE IF blend_mode = kDestinationIn THEN << kSourceIn >>
  ELSE IF blend_mode = kSourceOut THEN << kDestinationOut >>
  ELSE IF blend_mode = kDestinationOut THEN << kSourceOut >>
  ELSE IF blend_mode = kSourceATop THEN << kDestinationATop >>
  ELSE IF blend_mode = kDestinationATop THEN << kSourceATop >>
  ELSE IF blend_mode = kXor THEN << kXor >>
  ELSE IF blend_mode = kPlus THEN << kPlus >>
  ELSE IF blend_mode = kModulate THEN << kModulate >>
  ELSE <<>>

\* kPorterDuffCoefficients, indexed by blend mode (from kClear on): src,
\* src * dst alpha, dst, dst * src alpha, dst * src color.
kPorterDuffCoefficients ==
  [m \in kClear..kScreen |->
     << << 0, 0, 0, 0, 0 >>, << 1, 0, 0, 0, 0 >>, << 0, 0, 1, 0, 0 >>,
        << 1, 0, 1, -1, 0 >>, << 1, -1, 1, 0, 0 >>, << 0, 1, 0, 0, 0 >>,
        << 0, 0, 0, 1, 0 >>, << 1, -1, 0, 0, 0 >>, << 0, 0, 1, -1, 0 >>,
        << 0, 1, 1, -1, 0 >>, << 1, -1, 0, 1, 0 >>, << 1, -1, 1, -1, 0 >>,
        << 1, 0, 1, 0, 0 >>, << 0, 0, 0, 0, 1 >>, << 0, 0, 1, 0, -1 >> >>[m + 1]]

\* optional::value_or
ValueOr(opt, default) == IF opt # <<>> THEN opt[1] ELSE default

\* The vertex loop of the Porter-Duff branch of Render.
PorterDuffVertices(texture_coords, transforms, colors, texture) ==
  [v \in 1..(6 * Len(texture_coords)) |->
     LET i == ((v - 1) \div 6) + 1
         j == ((v - 1) % 6) + 1
     IN  [vertices |->
            GetTransformedPoints(MakeSize(texture_coords[i]),
                                 transforms[i])[indices[j]],
          texture_coords |->
            [point |-> GetPoints(texture_coords[i])[indices[j]],
             size |-> [w |-> texture.w, h |-> texture.h]],
          color |-> Premultiply(colors[i])]]

\* PorterDuffDraw taking the coefficients of the requested blend mode itself.
PorterDuffDraw_NotInverted(tc, tr, co, entity, draw_ok) ==
  LET blend_coefficients == kPorterDuffCoefficients[blend_mode_]
  IN  [label |-> "DrawAtlas Blend",
       pipeline |-> "PorterDuffBlendPipeline",
       vertices |-> PorterDuffVertices(tc, tr, co, texture_[1]),
       texture |-> texture_,
       uniforms |->
         [mvp |-> entity,
          output_alpha |-> alpha_,
          input_alpha |-> 2,
          src_coeff |-> blend_coefficients[1],
          src_coeff_dst_alpha |-> blend_coefficients[2],
          dst_coeff |-> blend_coefficients[3],
          dst_coeff_src_alpha |-> blend_coefficients[4],
          dst_coeff_src_color |-> blend_coefficients[5]],
       ok |-> draw_ok]

\* The draw of the Porter-Duff branch of Render; ok is what pass.Draw()
\* returned for it.
PorterDuffDraw(tc, tr, co, entity, draw_ok) ==
  LET inverted_blend_mode ==
        ValueOr(InvertPorterDuffBlend(blend_mode_), kSource)
      blend_coefficients == kPorterDuffCoefficients[inverted_blend_mode]
  IN  [label |-> "DrawAtlas Blend",
       pipeline |-> "PorterDuffBlendPipeline",
       vertices |-> PorterDuffVertices(tc, tr, co, texture_[1]),
       texture |-> texture_,
       uniforms |->
         [mvp |-> entity,
          output_alpha |-> alpha_,
          input_alpha |-> 2,
          src_coeff |-> blend_coefficients[1],
          src_coeff_dst_alpha |-> blend_coefficients[2],
          dst_coeff |-> blend_coefficients[3],
          dst_coeff_src_alpha |-> blend_coefficients[4],
          dst_coeff_src_color |-> blend_coefficients[5]],
       ok |-> draw_ok]

\* A child contents as constructed, before any of its setters ran.
NewChild ==
  [texture_ |-> <<>>, alpha_ |-> 2, coverage_ |-> MakeXYWH(0, 0, 0, 0),
   use_destination_ |-> FALSE, subatlas_ |-> <<>>]

\* The texture of the snapshot RenderToSnapshot yields for a sub-atlas.
SnapshotTexture(sub_atlas) ==
  [id |-> "snapshot", w |-> sub_atlas.size.width, h |-> sub_atlas.size.height]

\* The end of a Render call: what it returned, drew and computed.
RenderReturns(value, draws, coverage, sub_atlas, snapshot, child_coverage) ==
  /\ ret' = << value >>
  /\ pass' = draws
  /\ locals' = [coverage |-> coverage, sub_atlas |-> sub_atlas,
                snapshot |-> snapshot, child_coverage |-> child_coverage]

\* IsNoOp without the alpha check.
IsNoOp_IgnoresAlpha == texture_ = <<>> \/ blend_mode_ = kClear

\* Whether Render returns at its first check.
IsNoOp == texture_ = <<>> \/ blend_mode_ = kClear \/ alpha_ <= 0

\* Render's end once a child contents has rendered with result r.
RenderReturnsChild(r, coverage, sub_atlas, snapshot, child_contents) ==
  RenderReturns(r.ret, r.draws, coverage, sub_atlas, snapshot,
                << child_contents.coverage_ >>)

\* RenderAdvanced reporting success when there is no snapshot.
RenderAdvanced_IgnoresMissingSnapshot(sub_atlas, coverage, tc, tr, entity, draw_ok, has_snapshot) ==
  IF ~has_snapshot
  THEN RenderReturns(TRUE, <<>>, << coverage >>, << sub_atlas >>, <<>>, <<>>)
  ELSE RenderReturnsChild(
         AtlasTextureContentsRender(
           [NewChild EXCEPT !.alpha_ = alpha_,
                            !.coverage_ = coverage,
                            !.texture_ = << SnapshotTexture(sub_atlas) >>,
                            !.use_destination_ = TRUE,
                            !.subatlas_ = << sub_atlas >>],
           texture_, tc, tr, entity, draw_ok),
         << coverage >>, << sub_atlas >>, << SnapshotTexture(sub_atlas) >>,
         [coverage_ |-> coverage])

\* Render from "Advanced blends" on, GenerateSubAtlas having returned
\* sub_atlas.
RenderAdvanced(sub_atlas, coverage, tc, tr, entity, draw_ok, has_snapshot) ==
  IF ~has_snapshot
  THEN RenderReturns(FALSE, <<>>, << coverage >>, << sub_atlas >>, <<>>, <<>>)
  ELSE RenderReturnsChild(
         AtlasTextureContentsRender(
           [NewChild EXCEPT !.alpha_ = alpha_,
                            !.coverage_ = coverage,
                            !.texture_ = << SnapshotTexture(sub_atlas) >>,
                            !.use_destination_ = TRUE,
                            !.subatlas_ = << sub_atlas >>],
           texture_, tc, tr, entity, draw_ok),
         << coverage >>, << sub_atlas >>, << SnapshotTexture(sub_atlas) >>,
         [coverage_ |-> coverage])

\* Render from the test for kDestination on: coverage is the local of that
\* name (as a one-element sequence), co the colors as read.
RenderColored(coverage, tc, tr, co, entity, draw_ok, has_snapshot) ==
  IF blend_mode_ = kDestination
  THEN RenderReturnsChild(
         AtlasColorContentsRender(
           [NewChild EXCEPT !.alpha_ = alpha_, !.coverage_ = coverage[1]],
           tc, tr, co, entity, draw_ok),
         coverage, <<>>, <<>>, [coverage_ |-> coverage[1]])
  ELSE IF blend_mode_ <= kModulate
  THEN RenderReturns(draw_ok,
                     << PorterDuffDraw(tc, tr, co, entity, draw_ok) >>,
                     coverage, <<>>, <<>>, <<>>)
  ELSE \E order \in Orders(SubAtlasKeys(tc, co)) :
         RenderAdvanced(GenerateSubAtlas(tc, co, tr, order), coverage[1], tc,
                        tr, entity, draw_ok, has_snapshot)

\* Render past its first check, with coverage the local of that name (as a
\* one-element sequence) and tc and tr the regions and transforms as read.
\* The colors are read past the texture-only branch; gc is what reads of
\* colors_ past its end yield.
RenderWith(coverage, tc, tr, entity, draw_ok, has_snapshot) ==
  IF blend_mode_ = kSource \/ Len(colors_) = 0
  THEN RenderReturnsChild(
         AtlasTextureContentsRender(
           [NewChild EXCEPT !.alpha_ = alpha_, !.coverage_ = coverage[1]],
           texture_, tc, tr, entity, draw_ok),
         coverage, <<>>, <<>>, [coverage_ |-> coverage[1]])
  ELSE \E gc \in Garbage(colors_, Len(tc), Colors) :
         RenderColored(coverage, tc, tr, Padded(colors_, Len(tc), gc), entity,
                       draw_ok, has_snapshot)

\* RenderDraws taking the cull rect, when there is one, for the coverage,
\* and computing no bounds then.
RenderDraws_CullCoverage(cache, tc, tr, entity, draw_ok, has_snapshot) ==
  /\ bounding_box_cache_' =
       IF cull_rect_ # <<>> THEN bounding_box_cache_ ELSE cache
  /\ RenderWith(IF cull_rect_ # <<>> THEN cull_rect_ ELSE cache, tc, tr,
                entity, draw_ok, has_snapshot)

\* Render past its first check: cache is the bounding box cache after
\* ComputeBoundingBox, whose value is the coverage.
RenderDraws(cache, tc, tr, entity, draw_ok, has_snapshot) ==
  /\ bounding_box_cache_' = cache
  /\ RenderWith(cache, tc, tr, entity, draw_ok, has_snapshot)

\* AtlasContents::Render. draw_ok is whether pass.Draw() succeeds and
\* has_snapshot whether RenderToSnapshot yields a snapshot.
Render(entity, draw_ok, has_snapshot) ==
  /\ op' = "Render"
  /\ UNCHANGED << texture_, transforms_, texture_coords_, colors_, alpha_,
                  blend_mode_, cull_rect_ >>
  /\ UNCHANGED compute_vars
  /\ IF IsNoOp
     THEN /\ RenderReturns(TRUE, <<>>, <<>>, <<>>, <<>>, <<>>)
          /\ UNCHANGED bounding_box_cache_
     ELSE \E gm \in Garbage(transforms_, Len(texture_coords_), Matrices) :
            RenderDraws(CacheAfterCompute(gm), texture_coords_,
                        Padded(transforms_, Len(texture_coords_), gm),
                        entity, draw_ok, has_snapshot)

\* ------------------------------------------------------------------------
\* ComputePass
\* ------------------------------------------------------------------------

\* ISize as width and height.
DefaultSize == [width |-> 32, height |-> 32]

\* Sizes handed to SetGridSize and SetThreadGroupSize.
Sizes ==
  {DefaultSize, [width |-> 8, height |-> 1], [width |-> 0, height |-> 32],
   [width |-> 4, height |-> -1]}

\* ISize::IsEmpty.
SizeIsEmpty(size) == size.width <= 0 \/ size.height <= 0

\* ComputeCommand, and whether its operator bool holds.
ValidCommand == [pipeline |-> << "pipeline" >>, valid |-> TRUE]

InvalidCommand == [pipeline |-> <<>>, valid |-> FALSE]

Commands == {ValidCommand, InvalidCommand}

\* Labels handed to SetLabel.
Labels == {"", "Compute"}

\* ComputePass::ComputePass, given a weak_ptr to a Context that has
\* use_count shared_ptr owners.
NewComputePass(use_count) ==
  /\ context_ = use_count
  /\ grid_size_ = DefaultSize
  /\ thread_group_size_ = DefaultSize
  /\ commands_ = <<>>
  /\ pc = "idle"
  /\ context = <<>>
  /\ compute_op = "init"
  /\ compute_ret = <<>>
  /\ virtual_calls = <<>>
  /\ expired_at_call = FALSE

\* A member function that is called and returns in one step.
ComputeReturned(name, value, calls) ==
  /\ pc = "idle"
  /\ compute_op' = name
  /\ compute_ret' = value
  /\ virtual_calls' = calls
  /\ expired_at_call' = (context_ = 0)
  /\ UNCHANGED << context_, pc, context >>
  /\ UNCHANGED atlas_vars

SetLabel(label) ==
  /\ ComputeReturned("SetLabel", <<>>,
                     IF label = "" THEN <<>>
                     ELSE << [fn |-> "OnSetLabel", label |-> label] >>)
  /\ UNCHANGED << grid_size_, thread_group_size_, commands_ >>

SetGridSize(size) ==
  /\ grid_size_' = size
  /\ ComputeReturned("SetGridSize", <<>>, <<>>)
  /\ UNCHANGED << thread_group_size_, commands_ >>

SetThreadGroupSize(size) ==
  /\ thread_group_size_' = size
  /\ ComputeReturned("SetThreadGroupSize", <<>>, <<>>)
  /\ UNCHANGED << grid_size_, commands_ >>

AddCommand(command) ==
  /\ Len(commands_) < MaxCommands
  /\ commands_' = IF command.valid THEN Append(commands_, command)
                  ELSE commands_
  /\ ComputeReturned("AddCommand", << command.valid >>, <<>>)
  /\ UNCHANGED << grid_size_, thread_group_size_ >>

\* Another owner of the Context lets go of its shared_ptr, on any thread and
\* at any time; the Context is destroyed with its last owner.
ReleaseContext ==
  /\ context_ - Len(context) > 0
  /\ context_' = context_ - 1
  /\ UNCHANGED << grid_size_, thread_group_size_, commands_, pc, context,
                  compute_op, compute_ret, virtual_calls, expired_at_call >>
  /\ UNCHANGED atlas_vars

\* weak_ptr::lock yielding a pointer to the Context whether or not it is
\* gone.
Lock_Dangling(use_count) == << "Context" >>

\* weak_ptr::lock on a Context with the given use count.
Lock(use_count) == IF use_count > 0 THEN << "Context" >> ELSE <<>>

\* EncodeCommands up to the check of the two sizes.
EncodeCommands ==
  /\ pc = "idle"
  /\ compute_op' = "EncodeCommands"
  /\ virtual_calls' = <<>>
  /\ expired_at_call' = (context_ = 0)
  /\ IF SizeIsEmpty(grid_size_) \/ SizeIsEmpty(thread_group_size_)
     THEN /\ compute_ret' = << FALSE >>
          /\ pc' = "idle"
     ELSE /\ compute_ret' = <<>>
          /\ pc' = "lock"
  /\ UNCHANGED << context_, grid_size_, thread_group_size_, commands_,
                  context >>
  /\ UNCHANGED atlas_vars

\* auto context = context_.lock(), and the return of false if it is null.
EncodeCommands_Lock ==
  /\ pc = "lock"
  /\ context' = Lock(context_)
  /\ context_' = context_ + Len(context')
  /\ IF context' = <<>>
     THEN /\ compute_ret' = << FALSE >>
          /\ pc' = "idle"
     ELSE /\ compute_ret' = <<>>
          /\ pc' = "call"
  /\ UNCHANGED << grid_size_, thread_group_size_, commands_, compute_op,
                  virtual_calls, expired_at_call >>
  /\ UNCHANGED atlas_vars

\* The call of OnEncodeCommands(*context, grid_size_, thread_group_size_).
EncodeCommands_Call ==
  /\ pc = "call"
  /\ pc' = "OnEncodeCommands"
  /\ virtual_calls' =
       << [fn |-> "OnEncodeCommands", context_alive |-> context_ > 0,
           grid_size |-> grid_size_,
           thread_group_size |-> thread_group_size_] >>
  /\ UNCHANGED << context_, grid_size_, thread_group_size_, commands_,
                  context, compute_op, compute_ret, expired_at_call >>
  /\ UNCHANGED atlas_vars

\* OnEncodeCommands returns encoded, EncodeCommands returns that, and the
\* local shared_ptr goes.
EncodeCommands_Return(encoded) ==
  /\ pc = "OnEncodeCommands"
  /\ pc' = "idle"
  /\ compute_ret' = << encoded >>
  /\ context' = <<>>
  /\ context_' = context_ - 1
  /\ UNCHANGED << grid_size_, thread_group_size_, commands_, compute_op,
                  virtual_calls, expired_at_call >>
  /\ UNCHANGED atlas_vars

\* ------------------------------------------------------------------------
\* Specification
\* ------------------------------------------------------------------------

\* A default-constructed AtlasContents: alpha 1.0, blend mode kSourceOver.
Init ==
  /\ texture_ = <<>>
  /\ transforms_ = <<>>
  /\ texture_coords_ = <<>>
  /\ colors_ = <<>>
  /\ alpha_ = 2
  /\ blend_mode_ = kSourceOver
  /\ cull_rect_ = <<>>
  /\ bounding_box_cache_ = <<>>
  /\ op = "init"
  /\ ret = <<>>
  /\ pass = <<>>
  /\ locals = NoLocals
  /\ NewComputePass(0)

\* The transform of the entity a render call is made for.
Entities == {Turned}

\* The object from construction on, driven through the setters that C++
\* callers use between frames, and queried for its bounds and coverage. No
\* texture is ever set, so the geometry is all that varies.
Next ==
  \/ \E transforms \in SeqsUpTo(Matrices, MaxInstances) :
       SetTransforms(transforms)
  \/ \E texture_coords \in SeqsUpTo(Rects, MaxInstances) :
       SetTextureCoordinates(texture_coords)
  \/ \E colors \in SeqsUpTo({White}, 1) : SetColors(colors)
  \/ \E alpha \in Alphas : SetAlpha(alpha)
  \/ \E blend_mode \in {kSourceOver, kScreen} : SetBlendMode(blend_mode)
  \/ \E cull_rect \in SeqsUpTo(CullRects, 1) : SetCullRect(cull_rect)
  \/ ComputeBoundingBox
  \/ \E entity \in Matrices : GetCoverage(entity)

Spec == Init /\ [][Next]_vars

\* The instance lists of length n over the given values: one transform, one
\* region and one color each.
Instances(n, M, R, C) ==
  [transforms : [1..n -> M], texture_coords : [1..n -> R],
   colors : [1..n -> C]]

\* Any instance set the setters can have configured before a frame is
\* rendered: index-aligned transforms and regions, and colors that are
\* either empty or index-aligned as well.
InitRender ==
  /\ texture_ \in SeqsUpTo(Textures, 1)
  /\ \E n \in 0..MaxInstances :
       \E inst \in Instances(n, {Turned}, Rects, {White, HalfRed}) :
         /\ transforms_ = inst.transforms
         /\ texture_coords_ = inst.texture_coords
         /\ colors_ \in {<<>>, inst.colors}
  /\ alpha_ \in Alphas
  /\ blend_mode_ \in BlendModes
  /\ cull_rect_ \in SeqsUpTo(CullRects, 1)
  /\ bounding_box_cache_ = <<>>
  /\ op = "init"
  /\ ret = <<>>
  /\ pass = <<>>
  /\ locals = NoLocals
  /\ NewComputePass(0)

\* Rendering and querying a configured object.
NextRender ==
  \/ \E entity \in Entities, draw_ok \in BOOLEAN, has_snapshot \in BOOLEAN :
       Render(entity, draw_ok, has_snapshot)
  \/ ComputeBoundingBox
  \/ \E entity \in Entities : GetCoverage(entity)

SpecRender == InitRender /\ [][NextRender]_vars

\* An object with a texture, up to MaxInstances instances and an advanced
\* blend mode: the objects whose rendering packs a sub-atlas.
InitPack ==
  /\ texture_ = << TexA >>
  /\ \E n \in 0..MaxInstances :
       \E inst \in Instances(n, Matrices, Rects, Colors) :
         /\ transforms_ = inst.transforms
         /\ texture_coords_ = inst.texture_coords
         /\ colors_ = inst.colors
  /\ alpha_ = 2
  /\ blend_mode_ = kMultiply
  /\ cull_rect_ = <<>>
  /\ bounding_box_cache_ = <<>>
  /\ op = "init"
  /\ ret = <<>>
  /\ pass = <<>>
  /\ locals = NoLocals
  /\ NewComputePass(0)

NextPack ==
  \E entity \in Entities, draw_ok \in BOOLEAN, has_snapshot \in BOOLEAN :
    Render(entity, draw_ok, has_snapshot)

SpecPack == InitPack /\ [][NextPack]_vars

\* The same objects over regions chosen for the packer's row arithmetic:
\* widths that leave the cursor just short of, on and past the row width,
\* and a region of negative size (SetTextureCoordinates takes any Rect).
InitRowBudget ==
  /\ texture_ = << TexA >>
  /\ \E n \in 0..MaxInstances :
       \E inst \in Instances(n, {Identity}, RowRects, {White}) :
         /\ transforms_ = inst.transforms
         /\ texture_coords_ = inst.texture_coords
         /\ colors_ = inst.colors
  /\ alpha_ = 2
  /\ blend_mode_ = kMultiply
  /\ cull_rect_ = <<>>
  /\ bounding_box_cache_ = <<>>
  /\ op = "init"
  /\ ret = <<>>
  /\ pass = <<>>
  /\ locals = NoLocals
  /\ NewComputePass(0)

SpecRowBudget == InitRowBudget /\ [][NextPack]_vars

\* A ComputePass made for a live Context, no AtlasContents taking part. The
\* member functions are called from one thread, one after the other, and
\* the owners of the Context let go of it at any point of those calls.
InitCompute ==
  /\ texture_ = <<>>
  /\ transforms_ = <<>>
  /\ texture_coords_ = <<>>
  /\ colors_ = <<>>
  /\ alpha_ = 2
  /\ blend_mode_ = kSourceOver
  /\ cull_rect_ = <<>>
  /\ bounding_box_cache_ = <<>>
  /\ op = "init"
  /\ ret = <<>>
  /\ pass = <<>>
  /\ locals = NoLocals
  /\ \E use_count \in 1..MaxOwners : NewComputePass(use_count)

NextCompute ==
  \/ \E label \in Labels : SetLabel(label)
  \/ \E size \in Sizes : SetGridSize(size)
  \/ \E size \in Sizes : SetThreadGroupSize(size)
  \/ \E command \in Commands : AddCommand(command)
  \/ EncodeCommands
  \/ EncodeCommands_Lock
  \/ EncodeCommands_Call
  \/ \E encoded \in BOOLEAN : EncodeCommands_Return(encoded)
  \/ ReleaseContext

SpecCompute == InitCompute /\ [][NextCompute]_vars

\* ------------------------------------------------------------------------
\* Properties of the render dispatch (checked under SpecRender)
\* ------------------------------------------------------------------------

\* The last call was a Render that got past its first check.
Rendered ==
  /\ op = "Render"
  /\ texture_ # <<>>
  /\ blend_mode_ # kClear
  /\ alpha_ > 0

\* The number of instances the loops run over.
NumInstances == Len(texture_coords_)

\* Vertex j (1..6) of instance i in a vertex buffer of six vertices each.
VertexOf(vertices, i, j) == vertices[6 * (i - 1) + j]

\* C1: a Render of an instance set without texture, or with blend mode
\* clear, or with alpha <= 0, returns true and records no draw on the pass,
\* whatever the transforms, regions, colors and cull rect are.
C1_NoOpRender ==
  (op = "Render"
   /\ (texture_ = <<>> \/ blend_mode_ = kClear \/ alpha_ <= 0))
  => (ret = << TRUE >> /\ pass = <<>>)

\* A transparent instance set that has a texture, instances, colors and a
\* cull rect has been rendered.
C1_Witness ==
  /\ op = "Render"
  /\ texture_ # <<>>
  /\ alpha_ <= 0
  /\ blend_mode_ = kSourceOver
  /\ NumInstances = 2
  /\ Len(colors_) = 2
  /\ cull_rect_ # <<>>
  /\ ret = << TRUE >>

\* The case C2 is about: a render past the first check with blend mode
\* source or without colors.
C2_Case == Rendered /\ (blend_mode_ = kSource \/ Len(colors_) = 0)

\* The draw d samples the texture over the current regions and transforms
\* and carries nothing else: no term below reads colors_.
IsTextureOnlyDraw(d) ==
  /\ d.label = "AtlasTexture"
  /\ d.pipeline = "TexturePipeline"
  /\ d.texture = texture_
  /\ d.uniforms.alpha = alpha_
  /\ d.uniforms.mvp \in Entities
  /\ DOMAIN d.uniforms = {"mvp", "alpha"}
  /\ Len(d.vertices) = 6 * NumInstances
  /\ \A i \in 1..NumInstances, j \in 1..6 :
       VertexOf(d.vertices, i, j) =
         [position |->
            TransformPoint(transforms_[i],
                           GetPoints(MakeSize(texture_coords_[i]))[indices[j]]),
          texture_coords |->
            [point |-> GetPoints(texture_coords_[i])[indices[j]],
             size |-> [w |-> texture_[1].w, h |-> texture_[1].h]]]

\* C2 as stated: with blend mode source or without colors, Render records
\* exactly one draw, through the texture-sampling child.
C2_AlwaysOneTextureDraw ==
  C2_Case => (Len(pass) = 1 /\ pass[1].label = "AtlasTexture")

\* C2, amended: with blend mode source or without colors, Render records
\* exactly one draw through the texture-sampling child when there is at
\* least one instance, and that draw's vertex data and uniforms are
\* determined by the texture, regions, transforms and alpha alone; without
\* instances it records no draw and returns true.
C2_TextureOnlyDraw ==
  C2_Case =>
    IF NumInstances = 0
    THEN pass = <<>> /\ ret = << TRUE >>
    ELSE Len(pass) = 1 /\ IsTextureOnlyDraw(pass[1])

\* Two instances with two different colors were drawn under blend mode
\* source.
C2_Witness ==
  /\ C2_Case
  /\ blend_mode_ = kSource
  /\ NumInstances = 2
  /\ Len(colors_) = 2
  /\ colors_[1] # colors_[2]
  /\ Len(pass) = 1

\* The case C3 is about: a render past the first check with blend mode
\* destination.
C3_Case == Rendered /\ blend_mode_ = kDestination

\* The draw d covers the current regions and transforms with the current
\* premultiplied colors and carries nothing else: it binds no texture and
\* no term below reads texture_.
IsColorOnlyDraw(d) ==
  /\ d.label = "AtlasColors"
  /\ d.pipeline = "GeometryColorPipeline"
  /\ d.blend_mode = kSourceOver
  /\ d.texture = <<>>
  /\ d.uniforms.alpha = alpha_
  /\ d.uniforms.mvp \in Entities
  /\ DOMAIN d.uniforms = {"mvp", "alpha"}
  /\ Len(d.vertices) = 6 * NumInstances
  /\ \A i \in 1..NumInstances, j \in 1..6 :
       VertexOf(d.vertices, i, j) =
         [position |->
            TransformPoint(transforms_[i],
                           GetPoints(MakeSize(texture_coords_[i]))[indices[j]]),
          color |->
            [r |-> colors_[i].r * colors_[i].a,
             g |-> colors_[i].g * colors_[i].a,
             b |-> colors_[i].b * colors_[i].a,
             a |-> colors_[i].a]]

\* C3 as stated: with blend mode destination, Render records exactly one
\* draw, through the color child.
C3_AlwaysOneColorDraw ==
  C3_Case => (Len(pass) = 1 /\ pass[1].label = "AtlasColors")

\* C3, amended: with blend mode destination, non-empty colors and at least
\* one instance, Render records exactly one draw, through the color child,
\* determined by the regions' sizes, transforms, colors and alpha alone; it
\* binds no texture. Without colors the draw is the texture-sampling one of
\* C2.
C3_ColorOnlyDraw ==
  (C3_Case /\ Len(colors_) > 0 /\ NumInstances > 0)
  => (Len(pass) = 1 /\ IsColorOnlyDraw(pass[1]))

\* Two instances with colors were drawn under blend mode destination, with
\* the second texture.
C3_Witness ==
  /\ C3_Case
  /\ NumInstances = 2
  /\ Len(colors_) = 2
  /\ texture_ = << TexB >>
  /\ Len(pass) = 1
  /\ pass[1].label = "AtlasColors"

\* ------------------------------------------------------------------------
\* Properties of the sub-atlas packer (checked under SpecPack)
\* ------------------------------------------------------------------------

\* The last call was a Render that called GenerateSubAtlas.
Packed == op = "Render" /\ locals.sub_atlas # <<>>

\* The SubAtlasResult of that call.
TheSubAtlas == locals.sub_atlas[1]

\* The number of packed entries.
NumPacked == Len(TheSubAtlas.sub_texture_coords)

\* The rectangle packed entry k occupies in the canvas: its region's size at
\* the offset its sub-transform translates to.
PackedRect(k) ==
  MakeXYWH(TheSubAtlas.sub_transforms[k].tx, TheSubAtlas.sub_transforms[k].ty,
           TheSubAtlas.sub_texture_coords[k].w,
           TheSubAtlas.sub_texture_coords[k].h)

\* Packed entry k stands for the (region, quantized color) group of
\* instance i.
IsGroupOf(k, i) ==
  /\ TheSubAtlas.sub_texture_coords[k] = texture_coords_[i]
  /\ ToIColor(TheSubAtlas.sub_colors[k]) = ToIColor(colors_[i])

\* The number of per-instance entries that carry the rectangle of entry k.
MemberCount(k) ==
  Cardinality({j \in 1..Len(TheSubAtlas.result_texture_coords) :
                 TheSubAtlas.result_texture_coords[j] = PackedRect(k)})

RECURSIVE SumMemberCounts(_)
SumMemberCounts(k) ==
  IF k = 0 THEN 0 ELSE MemberCount(k) + SumMemberCounts(k - 1)

\* C4: for any N instances given to GenerateSubAtlas, the group member
\* counts sum to N, result_texture_coords and result_transforms have N
\* entries each, and there is a one-to-one assignment of output entries to
\* original instances under which entry j carries that instance's
\* transform unchanged and the packed rectangle of that instance's
\* (region, quantized color) group.
C4_EveryInstanceOnce ==
  Packed =>
    /\ Len(TheSubAtlas.result_texture_coords) = NumInstances
    /\ Len(TheSubAtlas.result_transforms) = NumInstances
    /\ SumMemberCounts(NumPacked) = NumInstances
    /\ \E perm \in Orders(1..NumInstances) :
         \A j \in 1..NumInstances :
           /\ TheSubAtlas.result_transforms[j] = transforms_[perm[j]]
           /\ \E k \in 1..NumPacked :
                /\ IsGroupOf(k, perm[j])
                /\ TheSubAtlas.result_texture_coords[j] = PackedRect(k)

\* Two instances with different transforms in two groups were packed, and
\* the map was iterated against the instance order.
C4_Witness ==
  /\ Packed
  /\ NumInstances = 2
  /\ NumPacked = 2
  /\ transforms_[1] # transforms_[2]
  /\ TheSubAtlas.result_transforms[1] = transforms_[2]

\* The interiors of the rectangles p and q intersect.
Overlap(p, q) ==
  /\ p.x < q.x + q.w
  /\ q.x < p.x + p.w
  /\ p.y < q.y + q.h
  /\ q.y < p.y + p.h

\* C5: for instances with non-negative region sizes, no two packed
\* rectangles overlap in the canvas, and the canvas size is at least the
\* right and the bottom extent of every packed rectangle.
C5_NoOverlapInCanvas ==
  Packed =>
    /\ \A k1, k2 \in 1..NumPacked :
         k1 # k2 => ~Overlap(PackedRect(k1), PackedRect(k2))
    /\ \A k \in 1..NumPacked :
         /\ PackedRect(k).x + PackedRect(k).w <= TheSubAtlas.size.width
         /\ PackedRect(k).y + PackedRect(k).h <= TheSubAtlas.size.height

\* Two rectangles were packed into two rows.
C5_Witness ==
  /\ Packed
  /\ NumPacked = 2
  /\ PackedRect(2).x = 0
  /\ PackedRect(2).y > 0
  /\ PackedRect(1).w > kRowWidth * 2

\* The distinct (region, quantized color) pairs of the instances.
DistinctKeys ==
  {<< texture_coords_[i], ToIColor(colors_[i]) >> : i \in 1..NumInstances}

\* C6: the packed entries are one per distinct (region, quantized color)
\* pair of the instances: no two entries share a pair, every instance's pair
\* has its entry, every entry carries the region and the exact color of one
\* of the instances, and sub_texture_coords, sub_colors and sub_transforms
\* have as many entries as there are distinct pairs. Two instances with the
\* same region and quantized color yield one entry with two members, and
\* the snapshot is then resampled with two quads, one per original
\* transform.
C6_OneEntryPerKey ==
  Packed =>
    /\ NumPacked = Cardinality(DistinctKeys)
    /\ Len(TheSubAtlas.sub_colors) = NumPacked
    /\ Len(TheSubAtlas.sub_transforms) = NumPacked
    /\ \A k1, k2 \in 1..NumPacked :
         (/\ TheSubAtlas.sub_texture_coords[k1]
               = TheSubAtlas.sub_texture_coords[k2]
          /\ ToIColor(TheSubAtlas.sub_colors[k1])
               = ToIColor(TheSubAtlas.sub_colors[k2]))
         => k1 = k2
    /\ \A i \in 1..NumInstances : \E k \in 1..NumPacked : IsGroupOf(k, i)
    /\ \A k \in 1..NumPacked :
         \E i \in 1..NumInstances :
           /\ TheSubAtlas.sub_texture_coords[k] = texture_coords_[i]
           /\ TheSubAtlas.sub_colors[k] = colors_[i]
    /\ (/\ NumInstances = 2
        /\ texture_coords_[1] = texture_coords_[2]
        /\ ToIColor(colors_[1]) = ToIColor(colors_[2]))
       => /\ NumPacked = 1
          /\ MemberCount(1) = 2
          /\ TheSubAtlas.result_transforms = transforms_
          /\ locals.snapshot # <<>> =>
               /\ Len(pass) = 1
               /\ pass[1].texture = locals.snapshot
               /\ Len(pass[1].vertices) = 12
               /\ \A i \in 1..2, j \in 1..6 :
                    VertexOf(pass[1].vertices, i, j).position =
                      TransformPoint(
                        transforms_[i],
                        GetPoints(MakeSize(texture_coords_[i]))[indices[j]])

\* Two instances of one region whose colors differ but quantize alike were
\* packed into one entry and resampled with two different transforms.
C6_Witness ==
  /\ Packed
  /\ NumInstances = 2
  /\ texture_coords_[1] = texture_coords_[2]
  /\ colors_[1] # colors_[2]
  /\ ToIColor(colors_[1]) = ToIColor(colors_[2])
  /\ transforms_[1] # transforms_[2]
  /\ NumPacked = 1
  /\ Len(pass) = 1
  /\ Len(pass[1].vertices) = 12

\* The x cursor before packed entry k is placed: 0 before the first, and
\* past the previous entry by the ceiling of its width plus 1.0 after.
CursorBefore(k) ==
  IF k = 1 THEN 0
  ELSE PackedRect(k - 1).x + Ceil(PackedRect(k - 1).w) + 2

RECURSIVE ExtentBefore(_)
\* The y extent before packed entry k is placed: the lowest ceiling of a
\* bottom edge among the entries placed before it, and 0 at least.
ExtentBefore(k) ==
  IF k = 1 THEN 0
  ELSE Max(ExtentBefore(k - 1),
           Ceil(PackedRect(k - 1).y + PackedRect(k - 1).h))

\* Packed entry k starts a new row: the cursor had reached the row width.
StartsRow(k) == CursorBefore(k) >= kRowWidth * 2

\* Packed entry k lies where the row rule puts it: at the left edge, 1.0
\* below everything placed so far, if it starts a row, and at the cursor in
\* the row of the entry before it otherwise.
FollowsRowRule(k) ==
  IF StartsRow(k)
  THEN /\ PackedRect(k).x = 0
       /\ PackedRect(k).y = ExtentBefore(k) + 2
  ELSE /\ PackedRect(k).x = CursorBefore(k)
       /\ PackedRect(k).y = IF k = 1 THEN 0 ELSE PackedRect(k - 1).y

\* Packed entry k is placed whole: its region appears once among the
\* packed regions of its color, and some instance is given a rectangle of
\* the region's full width and height at the entry's origin.
PlacedUnsplit(k) ==
  /\ \A k2 \in 1..NumPacked :
       (/\ TheSubAtlas.sub_texture_coords[k2]
             = TheSubAtlas.sub_texture_coords[k]
        /\ ToIColor(TheSubAtlas.sub_colors[k2])
             = ToIColor(TheSubAtlas.sub_colors[k]))
       => k2 = k
  /\ \E j \in 1..Len(TheSubAtlas.result_texture_coords) :
       TheSubAtlas.result_texture_coords[j] = PackedRect(k)

\* C11 as stated, for any regions: every packed rectangle has x-origin >= 0
\* and y-origin >= 0, a row starts exactly when the cursor has reached 1000
\* and then at x-origin 0 and y-origin y_extent + 1, every x-origin is
\* below 1000, and every rectangle is placed unsplit.
C11_OriginsNeverNegative ==
  Packed =>
    \A k \in 1..NumPacked :
      /\ PackedRect(k).x >= 0
      /\ PackedRect(k).y >= 0
      /\ FollowsRowRule(k)
      /\ PackedRect(k).x < kRowWidth * 2
      /\ PlacedUnsplit(k)

\* C11: in GenerateSubAtlas every packed rectangle has y-origin >= 0 and
\* x-origin < 1000; a new row is started exactly when the x cursor has
\* reached >= 1000 before a group is placed, and its first rectangle has
\* x-origin 0 and y-origin = the y_extent so far + 1; every other rectangle
\* lies at the cursor in the row of the one before it; a rectangle wider
\* than 1000 is placed unsplit as every other is; and the x-origins are >= 0
\* when no region has a negative width.
C11_RowBudget ==
  Packed =>
    /\ \A k \in 1..NumPacked :
         /\ PackedRect(k).y >= 0
         /\ FollowsRowRule(k)
         /\ PackedRect(k).x < kRowWidth * 2
         /\ PlacedUnsplit(k)
    /\ (\A i \in 1..NumInstances : texture_coords_[i].w >= 0)
         => \A k \in 1..NumPacked : PackedRect(k).x >= 0

\* A region that leaves the cursor at 1000 was packed first and one wider
\* than 1000 second, in a new row below it and whole.
C11_Witness ==
  /\ Packed
  /\ NumPacked = 2
  /\ TheSubAtlas.sub_texture_coords[1] = EdgeRect
  /\ CursorBefore(2) = kRowWidth * 2
  /\ PackedRect(2) = MakeXYWH(0, 6, WideRect.w, WideRect.h)
  /\ TheSubAtlas.result_texture_coords[2].w > kRowWidth * 2

\* ------------------------------------------------------------------------
\* Coverage and the bounding box cache
\* ------------------------------------------------------------------------

RECURSIVE UnionOfBounds(_)
\* The union of the bounds of the first n instances: each region's size,
\* as a rectangle at the origin, mapped through the instance's transform.
UnionOfBounds(n) ==
  IF n = 0 THEN MakeXYWH(0, 0, 0, 0)
  ELSE Union(TransformBounds(MakeXYWH(0, 0, texture_coords_[n].w,
                                      texture_coords_[n].h),
                             transforms_[n]),
             UnionOfBounds(n - 1))

\* C7 as stated: in a render that gets past the first check with a cull
\* rect set, the coverage Render computes is the cull rect.
C7_CullRectIsCoverage ==
  (Rendered /\ cull_rect_ # <<>>) => locals.coverage = cull_rect_

\* C7, amended: in every render that gets past the first check, the
\* coverage Render computes, and hands to the child contents it renders
\* with, is the bounding box of the current transforms and regions, which
\* it leaves in the cache, whether or not a cull rect is set. The cull rect
\* stands for the bounds only in GetCoverage, which then returns the cull
\* rect mapped through the entity's transform and leaves the cache alone.
C7_CoverageIsBoundingBox ==
  /\ [](Rendered =>
          /\ locals.coverage = << UnionOfBounds(NumInstances) >>
          /\ bounding_box_cache_ = locals.coverage
          /\ locals.child_coverage \in {<<>>, locals.coverage})
  /\ []((op = "GetCoverage" /\ cull_rect_ # <<>>) =>
          \E entity \in Matrices :
            ret = << TransformBounds(cull_rect_[1], entity) >>)
  /\ [][(op' = "GetCoverage" /\ cull_rect_ # <<>>) =>
          bounding_box_cache_' = bounding_box_cache_]_vars

\* Instances were rendered with a cull rect set that is not their bounding
\* box, and the child contents got the bounding box.
C7_Witness ==
  /\ Rendered
  /\ cull_rect_ # <<>>
  /\ NumInstances > 0
  /\ locals.coverage # cull_rect_
  /\ locals.child_coverage = locals.coverage

\* C8: while the regions do not outnumber the transforms, a cached bounding
\* box is the union of the transformed region-sized rectangles of the
\* current transforms and regions, and so is what ComputeBoundingBox
\* returns; assigning transforms or regions clears the cache; assigning
\* colors, alpha, blend mode or cull rect leaves it as it is; and two
\* ComputeBoundingBox calls in a row return the same value.
C8_CacheNeverStale ==
  /\ []((bounding_box_cache_ # <<>> /\ NumInstances <= Len(transforms_)) =>
          bounding_box_cache_ = << UnionOfBounds(NumInstances) >>)
  /\ []((op = "ComputeBoundingBox" /\ NumInstances <= Len(transforms_)) =>
          ret = << UnionOfBounds(NumInstances) >>)
  /\ [](op = "ComputeBoundingBox" => ret = bounding_box_cache_)
  /\ [][/\ (transforms_' # transforms_ \/ texture_coords_' # texture_coords_)
           => bounding_box_cache_' = <<>>
        /\ (\/ colors_' # colors_
            \/ alpha_' # alpha_
            \/ blend_mode_' # blend_mode_
            \/ cull_rect_' # cull_rect_)
           => bounding_box_cache_' = bounding_box_cache_
        /\ (op = "ComputeBoundingBox" /\ op' = "ComputeBoundingBox")
           => ret' = ret]_vars

\* ComputeBoundingBox returned the bounds of two instances that differ in
\* region and transform, from a cache that a color change had left alone.
C8_Witness ==
  /\ op = "ComputeBoundingBox"
  /\ NumInstances = 2
  /\ Len(transforms_) = 2
  /\ transforms_[1] # transforms_[2]
  /\ texture_coords_[1] # texture_coords_[2]
  /\ colors_ # <<>>
  /\ ret = << UnionOfBounds(2) >>
  /\ ~IsEmpty(ret[1])

\* ------------------------------------------------------------------------
\* Blend strategies and failure (checked under SpecRender)
\* ------------------------------------------------------------------------

\* The case C9 is about: a render past the first check with colors and a
\* blend mode other than source and destination.
C9_Case ==
  /\ Rendered
  /\ Len(colors_) > 0
  /\ blend_mode_ \notin {kSource, kDestination}

\* The table entry the coefficients of blend mode m are taken from.
CoefficientsFor(m) ==
  IF InvertPorterDuffBlend(m) # <<>>
  THEN kPorterDuffCoefficients[InvertPorterDuffBlend(m)[1]]
  ELSE kPorterDuffCoefficients[kSource]

\* The draw d is the single-pass Porter-Duff draw over all current
\* instances.
IsPorterDuffDraw(d) ==
  /\ d.label = "DrawAtlas Blend"
  /\ d.pipeline = "PorterDuffBlendPipeline"
  /\ d.texture = texture_
  /\ << d.uniforms.src_coeff, d.uniforms.src_coeff_dst_alpha,
        d.uniforms.dst_coeff, d.uniforms.dst_coeff_src_alpha,
        d.uniforms.dst_coeff_src_color >> = CoefficientsFor(blend_mode_)
  /\ blend_mode_ = kSourceOver =>
       << d.uniforms.src_coeff, d.uniforms.src_coeff_dst_alpha,
          d.uniforms.dst_coeff, d.uniforms.dst_coeff_src_alpha,
          d.uniforms.dst_coeff_src_color >> = << 1, -1, 1, 0, 0 >>
  /\ d.uniforms.output_alpha = alpha_
  /\ d.uniforms.input_alpha = 2
  /\ Len(d.vertices) = 6 * NumInstances
  /\ \A i \in 1..NumInstances, j \in 1..6 :
       VertexOf(d.vertices, i, j) =
         [vertices |->
            TransformPoint(transforms_[i],
                           GetPoints(MakeSize(texture_coords_[i]))[indices[j]]),
          texture_coords |->
            [point |-> GetPoints(texture_coords_[i])[indices[j]],
             size |-> [w |-> texture_[1].w, h |-> texture_[1].h]],
          color |->
            [r |-> colors_[i].r * colors_[i].a,
             g |-> colors_[i].g * colors_[i].a,
             b |-> colors_[i].b * colors_[i].a,
             a |-> colors_[i].a]]

\* C9: with a texture, alpha > 0, colors and a blend mode up to modulate
\* other than clear, source and destination, Render records exactly one
\* draw over all instances, packs no sub-atlas and takes no snapshot; the
\* five coefficients are the table entry of the inverse of the blend mode
\* (of source, had the mode no inverse), output alpha is alpha and input
\* alpha 1.0. Every blend mode past modulate packs a sub-atlas and draws,
\* if at all, by resampling the snapshot.
C9_SimpleModesDrawOnce ==
  C9_Case =>
    IF blend_mode_ <= kModulate
    THEN /\ Len(pass) = 1
         /\ IsPorterDuffDraw(pass[1])
         /\ locals.sub_atlas = <<>>
         /\ locals.snapshot = <<>>
    ELSE /\ locals.sub_atlas # <<>>
         /\ \A k \in 1..Len(pass) :
              /\ pass[k].label = "AtlasTexture"
              /\ pass[k].texture = locals.snapshot

\* Two instances were drawn in one pass under sourceOver.
C9_Witness ==
  /\ C9_Case
  /\ blend_mode_ = kSourceOver
  /\ NumInstances = 2
  /\ Len(pass) = 1
  /\ pass[1].label = "DrawAtlas Blend"
  /\ pass[1].uniforms.dst_coeff_src_alpha = 0
  /\ ret = << TRUE >>

\* The last render took the compositing path.
Composited == Rendered /\ locals.sub_atlas # <<>>

\* C10: a render records at most one draw on the caller's pass. On the
\* compositing path without a snapshot it returns false and records no
\* draw; with a snapshot it records the one resampling draw and returns
\* what that draw returned. On every other path it returns what the draw
\* it recorded returned, and true when it recorded none.
C10_FailurePropagates ==
  Rendered =>
    /\ Len(pass) <= 1
    /\ IF Composited /\ locals.snapshot = <<>>
       THEN ret = << FALSE >> /\ pass = <<>>
       ELSE IF Composited
       THEN /\ Len(pass) = 1
            /\ pass[1].label = "AtlasTexture"
            /\ pass[1].texture = locals.snapshot
            /\ ret = << pass[1].ok >>
       ELSE IF Len(pass) = 1
       THEN ret = << pass[1].ok >>
       ELSE ret = << TRUE >>

\* The resampling draw of a composited render failed, and so did the
\* render.
C10_Witness ==
  /\ Composited
  /\ locals.snapshot # <<>>
  /\ Len(pass) = 1
  /\ ~pass[1].ok
  /\ ret = << FALSE >>

\* ------------------------------------------------------------------------
\* Properties of ComputePass (checked under SpecCompute)
\* ------------------------------------------------------------------------

\* The pass's thread is between the call of OnEncodeCommands and its return.
InOnEncodeCommands == pc \in {"call", "OnEncodeCommands"}

\* The calls of OnEncodeCommands that the last member call has made.
EncodeCalls ==
  {i \in 1..Len(virtual_calls) : virtual_calls[i].fn = "OnEncodeCommands"}

\* C12: ComputePass holds its context only weakly, so that between its
\* calls the Context lives exactly as long as its other owners keep it;
\* however the owners' letting go is interleaved with SetGridSize,
\* SetThreadGroupSize, AddCommand and EncodeCommands, an EncodeCommands
\* call made after the Context was torn down never invokes
\* OnEncodeCommands and returns false; and OnEncodeCommands is invoked only
\* with a live Context, which stays alive until it returns, and with a grid
\* size and a thread-group size that are both non-empty.
C12_DeadContextNeverEncoded ==
  /\ pc = "idle" => context = <<>>
  /\ (compute_op = "EncodeCommands" /\ expired_at_call)
       => /\ ~InOnEncodeCommands
          /\ EncodeCalls = {}
          /\ pc = "idle" => compute_ret = << FALSE >>
  /\ InOnEncodeCommands
       => /\ context_ > 0
          /\ context # <<>>
          /\ ~SizeIsEmpty(grid_size_)
          /\ ~SizeIsEmpty(thread_group_size_)
  /\ \A i \in EncodeCalls :
       /\ compute_op = "EncodeCommands"
       /\ virtual_calls[i].context_alive
       /\ virtual_calls[i].grid_size = grid_size_
       /\ virtual_calls[i].thread_group_size = thread_group_size_
       /\ ~SizeIsEmpty(virtual_calls[i].grid_size)
       /\ ~SizeIsEmpty(virtual_calls[i].thread_group_size)

\* EncodeCommands was called with a command and both sizes non-empty after
\* the last owner had let go of the Context, and has returned false.
C12_Witness ==
  /\ compute_op = "EncodeCommands"
  /\ pc = "idle"
  /\ expired_at_call
  /\ Len(commands_) > 0
  /\ ~SizeIsEmpty(grid_size_)
  /\ ~SizeIsEmpty(thread_group_size_)
  /\ compute_ret = << FALSE >>
  /\ virtual_calls = <<>>

====
